---- MODULE Spec2Model ----
(***************************************************************************)
(* Experiment statistics and guardrail decision of azure-ceo.              *)
(*                                                                         *)
(*   MetricsPlugin.calculate_significance    plugins/experiment/           *)
(*                                           metrics_plugin.py             *)
(*   ExperimentRunnerAgent.run_statistical_analysis                        *)
(*                                           agents/experiment_runner.py   *)
(*   StatisticalAnalyzer.calculate_two_proportion_test                     *)
(*                                           utils/stats_analysis.py       *)
(*                                                                         *)
(* Floating point numbers are modelled by exact rationals [num, den].  A   *)
(* square root is carried as its radicand (pooled_se as pooled_se^2, the   *)
(* z score as its sign and its square), and a p-value, which is            *)
(* 2 * (1 - Phi(|z|)) and so strictly decreasing in z^2, as the z^2 it is  *)
(* the tail of.  Guardrail rates are integers in units of 1e-6.            *)
(***************************************************************************)
EXTENDS Integers, Sequences, FiniteSets, TLC

VARIABLES metrics_json, call, signif, decision, ab_test, calls, sample_sizes,
          invocations, rate_limit_filter, rate_calls, cosmos, writers, stream,
          workflow

vars ==
    <<metrics_json, call, signif, decision, ab_test, calls, sample_sizes,
      invocations, rate_limit_filter, rate_calls, cosmos, writers, stream,
      workflow>>

\* the campaigns: the persisted session, its writers, the campaign stream
\* and the campaign creation workflow
campaign_vars == <<cosmos, writers, stream, workflow>>

\* what a single evaluation leaves alone: the calls of other callers, the
\* sample sizes asked for, the function invocations filtered, the rate
\* limiter and the campaigns
other_vars ==
    <<calls, sample_sizes, invocations, rate_limit_filter, rate_calls,
      campaign_vars>>

\* the statistics engine
engine_vars == <<metrics_json, call, signif, decision, ab_test>>

(***************************************************************************)
(* Bounds of the model.                                                    *)
(***************************************************************************)
MaxPairs == 3
MaxVisits == 10
MaxScenarioPairs == 2
MaxCallers == 2
MaxSampleCalls == 2
MaxInvocations == 2
MaxTime == 5
max_calls_per_agent == 2
max_tokens_per_agent == 1
reset_interval == 2
MaxWriters == 2
message_limit == 30
MaxWorkflowMessages == 3

(***************************************************************************)
(* JSON and Python values.                                                 *)
(***************************************************************************)
\* a key that the JSON object does not hold
Absent == -1
\* Python None, JSON null
None == -2
NoVariant == "None"
NoException == ""
NoError == ""

VariantIds == {"control", "A", "B"}
ScenarioIds == {"control", "A"}

(***************************************************************************)
(* Exact rational arithmetic standing for the float arithmetic.            *)
(***************************************************************************)
Abs(x) == IF x < 0 THEN -x ELSE x

Max(a, b) == IF a >= b THEN a ELSE b

RECURSIVE GCD(_, _)
GCD(a, b) == IF b = 0 THEN a ELSE GCD(b, a % b)

Rat(n, d) ==
    LET g == GCD(Abs(n), Abs(d))
        s == IF d < 0 THEN -1 ELSE 1
    IN  [num |-> (s * n) \div g, den |-> Abs(d) \div g]

RInt(n) == [num |-> n, den |-> 1]

RMul(a, b) ==
    LET g1 == GCD(Abs(a.num), b.den)
        g2 == GCD(Abs(b.num), a.den)
    IN  IF a.num = 0 \/ b.num = 0 THEN RInt(0)
        ELSE [num |-> (a.num \div g1) * (b.num \div g2),
              den |-> (a.den \div g2) * (b.den \div g1)]

RAdd(a, b) ==
    LET g == GCD(a.den, b.den)
    IN  Rat(a.num * (b.den \div g) + b.num * (a.den \div g), (a.den \div g) * b.den)

RNeg(a) == [num |-> -a.num, den |-> a.den]

RSub(a, b) == RAdd(a, RNeg(b))

\* a / b for b # 0
RDiv(a, b) ==
    RMul(a, IF b.num < 0 THEN [num |-> -b.den, den |-> -b.num]
                         ELSE [num |-> b.den, den |-> b.num])

RLess(a, b) ==
    LET g == GCD(a.den, b.den)
    IN  a.num * (b.den \div g) < b.num * (a.den \div g)

RSign(a) == IF a.num > 0 THEN 1 ELSE IF a.num < 0 THEN -1 ELSE 0

(***************************************************************************)
(* MetricsPlugin.calculate_significance                                    *)
(***************************************************************************)
\* json.loads of an object: a repeated key keeps its first position and
\* takes its last value
RECURSIVE json_loads(_, _)
json_loads(pairs, i) ==
    IF i > Len(pairs) THEN <<>>
    ELSE LET k == pairs[i][1]
             last == CHOOSE j \in i..Len(pairs) :
                        /\ pairs[j][1] = k
                        /\ \A m \in (j + 1)..Len(pairs) : pairs[m][1] # k
         IN  IF \E j \in 1..(i - 1) : pairs[j][1] = k
             THEN json_loads(pairs, i + 1)
             ELSE <<(<<k, pairs[last][2]>>)>> \o json_loads(pairs, i + 1)

HasKey(obj, k) == \E i \in 1..Len(obj) : obj[i][1] = k

Lookup(obj, k) == obj[CHOOSE i \in 1..Len(obj) : obj[i][1] = k][2]

\* data.get(key): the value, or None for a key the object does not hold
DataGet(rate) == IF rate = Absent THEN None ELSE rate

\* the square of the two-tailed critical value for p = 0.05: p_value < 0.05
\* exactly when z^2 exceeds 1.959964^2 = 3.84146
ZCritSq == [num |-> 38415, den |-> 10000]

\* a one-tailed p-value, 1 - _normal_cdf(abs(z)): at z = 0 it is 0.5, the
\* two-tailed value of z^2 = 0.455, and it stays below the two-tailed value
PValueOneTailed(z_sq) == [tail_of |-> RAdd(z_sq, Rat(455, 1000))]

\* 2 * (1 - _normal_cdf(abs(z))), carried as the z^2 it is the tail of
PValue(z_sq) == [tail_of |-> z_sq]

\* p < 0.05
PValueBelowAlpha(p) == RLess(ZCritSq, p.tail_of)

\* p == 1.0
PValueIsOne(p) == p.tail_of.num = 0

NoStats ==
    [conversions |-> 0, visits |-> 0, conversion_rate |-> RInt(0),
     uplift_percent |-> RInt(0), z_sign |-> 0, z_sq |-> RInt(0),
     p_value |-> PValue(RInt(0)), ci_center |-> RInt(0), se_diff_sq |-> RInt(0),
     unsubscribe_rate |-> None, complaint_rate |-> None]

\* the pooled standard error of one sample only
PooledSeSqOneSample(pooled_p, control_visits, visits) ==
    RMul(RMul(pooled_p, RSub(RInt(1), pooled_p)), Rat(1, visits))

\* pooled_p * (1 - pooled_p) * (1/control["visits"] + 1/visits), the radicand
\* of pooled_se
PooledSeSq(pooled_p, control_visits, visits) ==
    RMul(RMul(pooled_p, RSub(RInt(1), pooled_p)),
         RAdd(Rat(1, control_visits), Rat(1, visits)))

\* the uplift without the test of the control's rate: the difference in
\* percentage points
UpliftOfDifference(diff, rate_control) == RMul(diff, RInt(100))

\* the uplift with the operands of the difference exchanged
UpliftReversed(diff, rate_control) ==
    IF rate_control.num > 0 THEN RMul(RDiv(RNeg(diff), rate_control), RInt(100))
    ELSE RInt(0)

\* ((rate - rate_control) / rate_control) * 100 if rate_control > 0 else 0
Uplift(diff, rate_control) ==
    IF rate_control.num > 0 THEN RMul(RDiv(diff, rate_control), RInt(100))
    ELSE RInt(0)

\* the z score without the test of pooled_se: always the division
PooledSeNeverZero(pooled_se_sq) == FALSE

\* if pooled_se == 0: z = 0, else the division by pooled_se
PooledSeIsZero(pooled_se_sq) == pooled_se_sq.num = 0

\* one pass of the loop body over a variant: the exception it raises, or the
\* entry it writes to results
VariantStats(control, data) ==
    LET cc == control.conversions
        cv == control.visits
        rate_control == Rat(cc, Max(cv, 1))
        conv == data.conversions
        visits == Max(data.visits, 1)
        rate == Rat(conv, visits)
        diff == RSub(rate, rate_control)
        pooled_p == Rat(cc + conv, cv + visits)
        pooled_se_sq == PooledSeSq(pooled_p, cv, visits)
        z_sq == IF PooledSeIsZero(pooled_se_sq) THEN RInt(0)
                ELSE RDiv(RMul(diff, diff), pooled_se_sq)
        z_sign == IF PooledSeIsZero(pooled_se_sq) THEN 0 ELSE RSign(diff)
        se_diff_sq == RAdd(RMul(RMul(rate_control, RSub(RInt(1), rate_control)),
                                Rat(1, cv)),
                           RMul(RMul(rate, RSub(RInt(1), rate)), Rat(1, visits)))
        uplift == Uplift(diff, rate_control)
    IN  IF cv + visits = 0 THEN [exc |-> "ZeroDivisionError", stats |-> NoStats]
        ELSE IF cv = 0 THEN [exc |-> "ZeroDivisionError", stats |-> NoStats]
        ELSE IF pooled_se_sq.num < 0 THEN [exc |-> "ValueError", stats |-> NoStats]
        ELSE IF ~PooledSeIsZero(pooled_se_sq) /\ pooled_se_sq.num = 0
        THEN [exc |-> "ZeroDivisionError", stats |-> NoStats]
        ELSE IF se_diff_sq.num < 0 THEN [exc |-> "ValueError", stats |-> NoStats]
        ELSE [exc |-> NoException,
              stats |-> [conversions |-> conv,
                         visits |-> visits,
                         conversion_rate |-> rate,
                         uplift_percent |-> uplift,
                         z_sign |-> z_sign,
                         z_sq |-> z_sq,
                         p_value |-> PValue(z_sq),
                         ci_center |-> diff,
                         se_diff_sq |-> se_diff_sq,
                         unsubscribe_rate |-> DataGet(data.unsubscribe_rate),
                         complaint_rate |-> DataGet(data.complaint_rate)]]

\* for vid, data in metrics.items(): results[vid] = {...}
RECURSIVE EvaluateVariants(_, _, _)
EvaluateVariants(metrics, control, i) ==
    IF i > Len(metrics) THEN [exc |-> NoException, results |-> <<>>]
    ELSE LET one == VariantStats(control, metrics[i][2])
             rest == EvaluateVariants(metrics, control, i + 1)
         IN  IF one.exc # NoException THEN [exc |-> one.exc, results |-> <<>>]
             ELSE IF rest.exc # NoException THEN rest
             ELSE [exc |-> NoException,
                   results |-> <<(<<metrics[i][1], one.stats>>)>> \o rest.results]

\* the winner test without the test of the uplift
IsWinnerAnyDirection(vid, stats) ==
    /\ vid # "control"
    /\ PValueBelowAlpha(stats.p_value)

\* the test of the winner loop
IsWinner(vid, stats) ==
    /\ vid # "control"
    /\ PValueBelowAlpha(stats.p_value)
    /\ stats.uplift_percent.num > 0

\* the winner loop without its break: the last winner
RECURSIVE WinnerLastMatch(_, _)
WinnerLastMatch(results, i) ==
    IF i > Len(results) THEN NoVariant
    ELSE LET later == WinnerLastMatch(results, i + 1)
         IN  IF later # NoVariant THEN later
             ELSE IF IsWinner(results[i][1], results[i][2]) THEN results[i][1]
             ELSE NoVariant

\* for vid, stats in results.items(): the first winner, then break
\* no test for the control: the first entry whatever it is
WinnerFirstEntry(results, i) ==
    IF i > Len(results) THEN NoVariant ELSE results[i][1]

RECURSIVE WinnerDetermination(_, _)
WinnerDetermination(results, i) ==
    IF i > Len(results) THEN NoVariant
    ELSE IF IsWinner(results[i][1], results[i][2]) THEN results[i][1]
    ELSE WinnerDetermination(results, i + 1)

NotCalled ==
    [status |-> "none", exception |-> NoException, error |-> NoError,
     results |-> <<>>, significant_winner |-> NoVariant]

\* an error reported with the statistics of a variant already in it
PluginErrorWithResults(msg) ==
    [NotCalled EXCEPT !.status = "returned", !.error = msg,
                      !.results = <<(<<"A", NoStats>>)>>]

PluginError(msg) == [NotCalled EXCEPT !.status = "returned", !.error = msg]

PluginRaised(exc) == [NotCalled EXCEPT !.status = "raised", !.exception = exc]

calculate_significance(text) ==
    IF ~text.valid
    THEN PluginError("Invalid JSON passed to calculate_significance")
    ELSE LET metrics == json_loads(text.pairs, 1)
         IN  IF ~HasKey(metrics, "control")
             THEN PluginError("Metrics must include a 'control' variant")
             ELSE LET ev == EvaluateVariants(metrics, Lookup(metrics, "control"), 1)
                  IN  IF ev.exc # NoException THEN PluginRaised(ev.exc)
                      ELSE [NotCalled EXCEPT
                              !.status = "returned",
                              !.results = ev.results,
                              !.significant_winner =
                                  WinnerDetermination(ev.results, 1)]

(***************************************************************************)
(* ExperimentRunnerAgent.run_statistical_analysis                          *)
(*                                                                         *)
(* The parsed plugin output is a JSON object.  A JSON value is carried by  *)
(* its type, the keys it holds when it is an object, and its number (in    *)
(* units of 1e-6) when it is one; the analysis never looks below the       *)
(* second level, where every value of "results" is an object.              *)
(***************************************************************************)
JDict(ks) == [t |-> "dict", keys |-> ks, n |-> 0]

JStr == [t |-> "str", keys |-> <<>>, n |-> 0]

JNull == [t |-> "null", keys |-> <<>>, n |-> 0]

JNum(micro) == [t |-> "num", keys |-> <<>>, n |-> micro]

RECURSIVE Keys(_, _)
Keys(results, i) ==
    IF i > Len(results) THEN <<>> ELSE <<results[i][1]>> \o Keys(results, i + 1)

\* json.loads of what calculate_significance returned (json.dumps(output))
SignifJson(out) ==
    IF out.error # NoError THEN <<(<<"error", JStr>>)>>
    ELSE << <<"results", JDict(Keys(out.results, 1))>>,
            <<"significant_winner",
              IF out.significant_winner = NoVariant THEN JNull ELSE JStr>> >>

\* signif.get(key, {})
TopGet(items, key) == IF HasKey(items, key) THEN Lookup(items, key) ELSE JDict(<<>>)

\* stats.get(key, default) on an object of objects
StatsGet(v, key, default) ==
    IF \E i \in 1..Len(v.keys) : v.keys[i] = key THEN JDict(<<>>) ELSE JNum(default)

\* one pass of the guardrail loop: the exception raised, or whether both
\* guardrails are ok
GuardrailOk(stats, control) ==
    LET u == StatsGet(stats, "unsubscribe_rate", 0)
        cu == StatsGet(control, "unsubscribe_rate", 1)
        c == StatsGet(stats, "complaint_rate", 0)
        ccr == StatsGet(control, "complaint_rate", 1)
    IN  IF stats.t # "dict" THEN [exc |-> "AttributeError", ok |-> FALSE]
        ELSE IF u.t # "num" \/ cu.t # "num" \/ c.t # "num" \/ ccr.t # "num"
        THEN [exc |-> "TypeError", ok |-> FALSE]
        ELSE [exc |-> NoException,
              ok |-> 10 * u.n <= 12 * cu.n /\ 10 * c.n <= 11 * ccr.n]

\* for variant_id, stats in signif.items(): guardrail_status
RECURSIVE Guardrails(_, _, _, _)
Guardrails(items, control, i, status) ==
    IF i > Len(items) THEN [exc |-> NoException, guardrail_status |-> status]
    ELSE IF items[i][1] = "control" THEN Guardrails(items, control, i + 1, status)
    ELSE LET g == GuardrailOk(items[i][2], control)
         IN  IF g.exc # NoException THEN [exc |-> g.exc, guardrail_status |-> status]
             ELSE Guardrails(items, control, i + 1,
                             IF g.ok THEN status ELSE "VIOLATED")

\* stats.get("p_value", 1) < 0.05 and stats.get("uplift", 0) > 0
AgentIsWinner(stats) ==
    LET p == StatsGet(stats, "p_value", 1000000)
        u == StatsGet(stats, "uplift", 0)
    IN  IF stats.t # "dict" THEN [exc |-> "AttributeError", ok |-> FALSE]
        ELSE IF p.t # "num" THEN [exc |-> "TypeError", ok |-> FALSE]
        ELSE IF ~(p.n < 50000) THEN [exc |-> NoException, ok |-> FALSE]
        ELSE IF u.t # "num" THEN [exc |-> "TypeError", ok |-> FALSE]
        ELSE [exc |-> NoException, ok |-> u.n > 0]

\* for variant_id, stats in signif.items(): the first winner, then break
RECURSIVE AgentWinner(_, _)
AgentWinner(items, i) ==
    IF i > Len(items) THEN [exc |-> NoException, winner |-> NoVariant]
    ELSE IF items[i][1] = "control" THEN AgentWinner(items, i + 1)
    ELSE LET w == AgentIsWinner(items[i][2])
         IN  IF w.exc # NoException THEN [exc |-> w.exc, winner |-> NoVariant]
             ELSE IF w.ok THEN [exc |-> NoException, winner |-> items[i][1]]
             ELSE AgentWinner(items, i + 1)

NoRecommendation == [token |-> "", variant |-> NoVariant]

\* the final decision token
Recommendation(guardrail_status, is_significant, winner) ==
    IF guardrail_status = "VIOLATED"
    THEN [token |-> "<HALT_EXPERIMENT>", variant |-> NoVariant]
    ELSE IF is_significant
    THEN [token |-> "Deploy Variant", variant |-> winner]
    ELSE [token |-> "<NO_DECISION_YET>", variant |-> NoVariant]

NoDecision ==
    [status |-> "none", exception |-> NoException, guardrail_status |-> "",
     winner |-> NoVariant, is_significant |-> FALSE,
     recommendation |-> NoRecommendation]

AgentRaised(exc) == [NoDecision EXCEPT !.status = "raised", !.exception = exc]

\* lines 185-226, on the plugin output the kernel handed back
AnalyseSignif(out) ==
    IF out.status = "raised" THEN AgentRaised(out.exception)
    ELSE LET items == SignifJson(out)
             g == Guardrails(items, TopGet(items, "control"), 1, "OK")
             w == AgentWinner(items, 1)
         IN  IF g.exc # NoException THEN AgentRaised(g.exc)
             ELSE IF w.exc # NoException THEN AgentRaised(w.exc)
             ELSE [status |-> "returned",
                   exception |-> NoException,
                   guardrail_status |-> g.guardrail_status,
                   winner |-> w.winner,
                   is_significant |-> w.winner # NoVariant,
                   recommendation |->
                       Recommendation(g.guardrail_status, w.winner # NoVariant,
                                      w.winner)]

(***************************************************************************)
(* StatisticalAnalyzer.calculate_two_proportion_test                       *)
(***************************************************************************)
NoTest ==
    [status |-> "none", exception |-> NoException, rate_a |-> RInt(0),
     rate_b |-> RInt(0), uplift_percentage |-> RInt(0), z_sign |-> 0,
     z_sq |-> RInt(0), p_value |-> PValue(RInt(0)), is_significant |-> FALSE]

TestRaised(exc) == [NoTest EXCEPT !.status = "raised", !.exception = exc]

calculate_two_proportion_test(conversions_a, visits_a, conversions_b, visits_b) ==
    LET rate_a == Rat(conversions_a, visits_a)
        rate_b == Rat(conversions_b, visits_b)
        diff == RSub(rate_b, rate_a)
        uplift == Uplift(diff, rate_a)
        pooled_p == Rat(conversions_a + conversions_b, visits_a + visits_b)
        pooled_se_sq == RMul(RMul(pooled_p, RSub(RInt(1), pooled_p)),
                             RAdd(Rat(1, visits_a), Rat(1, visits_b)))
        z_sq == IF pooled_se_sq.num > 0 THEN RDiv(RMul(diff, diff), pooled_se_sq)
                ELSE RInt(0)
        z_sign == IF pooled_se_sq.num > 0 THEN RSign(diff) ELSE 0
        se_diff_sq == RAdd(RMul(RMul(rate_a, RSub(RInt(1), rate_a)), Rat(1, visits_a)),
                           RMul(RMul(rate_b, RSub(RInt(1), rate_b)), Rat(1, visits_b)))
    IN  IF visits_a <= 0 \/ visits_b <= 0 THEN TestRaised("ValueError")
        ELSE IF pooled_se_sq.num < 0 THEN TestRaised("ValueError")
        ELSE IF se_diff_sq.num < 0 THEN TestRaised("ValueError")
        ELSE [status |-> "returned",
              exception |-> NoException,
              rate_a |-> rate_a,
              rate_b |-> rate_b,
              uplift_percentage |-> uplift,
              z_sign |-> z_sign,
              z_sq |-> z_sq,
              p_value |-> PValue(z_sq),
              is_significant |-> PValueBelowAlpha(PValue(z_sq))]

(***************************************************************************)
(* StatisticalAnalyzer.calculate_sample_size_required, with the default    *)
(* power 0.80 and significance 0.05.  A float argument is a rational m     *)
(* scaled by a power of two, m * 2^exp2, so that an effect below the       *)
(* resolution of a float near 1 can be told from 0.                        *)
(***************************************************************************)
Float(n, d) == [m |-> Rat(n, d), exp2 |-> 0]

\* 2^-60, a positive effect that 1 + effect rounds away
TinyEffect == [m |-> RInt(1), exp2 |-> -60]

\* 1 + minimum_detectable_effect in double precision: an effect of at most
\* 2^-53 is rounded away
OnePlus(effect) ==
    IF effect.exp2 < -53 THEN RInt(1) ELSE RAdd(RInt(1), effect.m)

\* (z_alpha + z_beta) ** 2 for norm.ppf(0.975) = 1.959964 and
\* norm.ppf(0.80) = 0.841621: 7.84888
ZSumSq == [num |-> 78489, den |-> 10000]

\* math.ceil
Ceil(r) == -((-r.num) \div r.den)

NoSample == [status |-> "none", exception |-> NoException, sample_size |-> 0]

SampleRaised(exc) == [NoSample EXCEPT !.status = "raised", !.exception = exc]

\* no test of the denominator
DenominatorNeverRejected(denominator) == FALSE

\* if denominator <= 0: raise ValueError
DenominatorRejected(denominator) == denominator.num <= 0

\* the quotient with its operands exchanged
SampleSizeInverted(ratio) == Ceil(RMul(ZSumSq, Rat(ratio.den, ratio.num)))

\* math.ceil(numerator / denominator), the numerator being ZSumSq times the
\* rest, of which ratio is the quotient by the denominator
SampleSize(ratio) == Ceil(RMul(ZSumSq, ratio))

calculate_sample_size_required(baseline_rate, minimum_detectable_effect) ==
    LET rate_b == RMul(baseline_rate.m, OnePlus(minimum_detectable_effect))
        pooled == RMul(RAdd(baseline_rate.m, rate_b), Rat(1, 2))
        diff == RSub(rate_b, baseline_rate.m)
        denominator == RMul(diff, diff)
        ratio == RDiv(RMul(RInt(2), RMul(pooled, RSub(RInt(1), pooled))),
                      denominator)
    IN  IF baseline_rate.m.num <= 0 \/ minimum_detectable_effect.m.num <= 0
        THEN SampleRaised("ValueError")
        ELSE IF DenominatorRejected(denominator) THEN SampleRaised("ValueError")
        ELSE IF denominator.num = 0 THEN SampleRaised("ZeroDivisionError")
        ELSE [status |-> "returned", exception |-> NoException,
              sample_size |-> SampleSize(ratio)]

BaselineRates == {Float(-1, 10), Float(0, 1), Float(1, 10), Float(9, 10)}

Effects ==
    {Float(-1, 2), Float(0, 1), TinyEffect, Float(1, 2), Float(1, 1),
     Float(89, 10), Float(9, 1), Float(30, 1)}

\* the arguments of the calls; baseline 0.9 with effect 8.9 is left out, its
\* numerator exceeding the integers of the model
SampleInputs ==
    {a \in BaselineRates \X Effects : ~(a[1] = Float(9, 10) /\ a[2] = Float(89, 10))}

(***************************************************************************)
(* The metrics a caller may pass.                                          *)
(***************************************************************************)
Conversions == {0, 1, 6, 10, 11}

\* every conversion count at MaxVisits visits, and one variant with no visit
VariantData ==
    [conversions : Conversions, visits : {MaxVisits},
     unsubscribe_rate : {Absent}, complaint_rate : {Absent}]
    \cup [conversions : {1}, visits : {0},
          unsubscribe_rate : {Absent}, complaint_rate : {Absent}]

\* guardrail rates 0.01 and 0.02, in units of 1e-6
ScenarioRates == {Absent, 10000, 20000}

\* the concrete scenario of the specification (100 and 120 conversions in
\* 1000 visits) and a significant treatment, with and without guardrail rates
ScenarioData ==
    [conversions : {100, 120, 150}, visits : {1000},
     unsubscribe_rate : ScenarioRates, complaint_rate : ScenarioRates]

InvalidJson == [valid |-> FALSE, pairs |-> <<>>]

JsonObjects(ids, data, n) ==
    {[valid |-> TRUE, pairs |-> s] : s \in UNION {[1..k -> ids \X data] : k \in 0..n}}

(***************************************************************************)
(* Calls in flight.  Each caller's call is a record of its argument and    *)
(* of the local variables of the function it runs; pc is the point the     *)
(* call has reached.  The steps of a function are the pieces between which *)
(* another caller may run.                                                 *)
(***************************************************************************)
Callers == 1..MaxCallers

IdleCall ==
    [pc |-> "idle", function |-> "", metrics_json |-> InvalidJson,
     metrics |-> <<>>, results |-> <<>>, signif |-> NotCalled,
     decision |-> NoDecision, ab_test |-> NoTest]

\* the caller's call of function with the argument text
Invoked(function, text) ==
    [IdleCall EXCEPT !.function = function, !.metrics_json = text]

\* calculate_significance, lines 53-62: json.loads, the test for the control
plugin_parse(r) ==
    IF ~r.metrics_json.valid
    THEN [r EXCEPT !.signif = PluginError("Invalid JSON passed to calculate_significance"),
                   !.pc = "done"]
    ELSE IF ~HasKey(json_loads(r.metrics_json.pairs, 1), "control")
    THEN [r EXCEPT !.metrics = json_loads(r.metrics_json.pairs, 1),
                   !.signif = PluginError("Metrics must include a 'control' variant"),
                   !.pc = "done"]
    ELSE [r EXCEPT !.metrics = json_loads(r.metrics_json.pairs, 1), !.pc = "parsed"]

\* data["visits"] = max(data["visits"], 1) for every variant
RECURSIVE VisitsWritten(_, _)
VisitsWritten(metrics, i) ==
    IF i > Len(metrics) THEN <<>>
    ELSE <<(<<metrics[i][1],
              [metrics[i][2] EXCEPT !.visits = Max(metrics[i][2].visits, 1)]>>)>>
         \o VisitsWritten(metrics, i + 1)

\* the loop over the variants with max(visits, 1) written back to the metrics
plugin_evaluate_in_place(r) ==
    IF EvaluateVariants(r.metrics, Lookup(r.metrics, "control"), 1).exc # NoException
    THEN [r EXCEPT !.signif = PluginRaised(
                       EvaluateVariants(r.metrics, Lookup(r.metrics, "control"), 1).exc),
                   !.metrics = VisitsWritten(r.metrics, 1),
                   !.pc = "done"]
    ELSE [r EXCEPT !.results =
                       EvaluateVariants(r.metrics, Lookup(r.metrics, "control"), 1).results,
                   !.metrics = VisitsWritten(r.metrics, 1),
                   !.pc = "evaluated"]

\* calculate_significance, lines 64-106: the loop over the variants, which
\* reads metrics and writes results
plugin_evaluate(r) ==
    IF EvaluateVariants(r.metrics, Lookup(r.metrics, "control"), 1).exc # NoException
    THEN [r EXCEPT !.signif = PluginRaised(
                       EvaluateVariants(r.metrics, Lookup(r.metrics, "control"), 1).exc),
                   !.pc = "done"]
    ELSE [r EXCEPT !.results =
                       EvaluateVariants(r.metrics, Lookup(r.metrics, "control"), 1).results,
                   !.pc = "evaluated"]

\* calculate_significance, lines 108-124: the winner and the output
plugin_winner(r) ==
    [r EXCEPT !.signif = [NotCalled EXCEPT
                            !.status = "returned",
                            !.results = r.results,
                            !.significant_winner = WinnerDetermination(r.results, 1)],
              !.pc = "done"]

\* run_statistical_analysis, lines 169-175: the metrics of the experiment
agent_fetch(r) ==
    IF ~r.metrics_json.valid
    THEN [r EXCEPT !.decision = AgentRaised("ValueError"), !.pc = "done"]
    ELSE [r EXCEPT !.metrics = json_loads(r.metrics_json.pairs, 1), !.pc = "fetched"]

\* run_statistical_analysis, lines 177-183: the kernel runs
\* calculate_significance, which awaits nothing
agent_significance(r) ==
    IF calculate_significance([valid |-> TRUE, pairs |-> r.metrics]).status = "raised"
    THEN [r EXCEPT !.signif = calculate_significance(
                                  [valid |-> TRUE, pairs |-> r.metrics]),
                   !.decision = AgentRaised(
                       calculate_significance(
                           [valid |-> TRUE, pairs |-> r.metrics]).exception),
                   !.pc = "done"]
    ELSE [r EXCEPT !.signif = calculate_significance(
                                  [valid |-> TRUE, pairs |-> r.metrics]),
                   !.pc = "significance"]

\* run_statistical_analysis, lines 185-226
agent_analyse(r) == [r EXCEPT !.decision = AnalyseSignif(r.signif), !.pc = "done"]

\* calculate_two_proportion_test of the first two variants of the text
analyzer_test(r) ==
    [r EXCEPT !.ab_test =
                  calculate_two_proportion_test(
                      r.metrics_json.pairs[1][2].conversions,
                      r.metrics_json.pairs[1][2].visits,
                      r.metrics_json.pairs[2][2].conversions,
                      r.metrics_json.pairs[2][2].visits),
              !.pc = "done"]

\* the metrics of the concurrent callers: a control with no conversion or
\* with 2 of 10, and a treatment A with the control's rate (at the control's
\* visits and at others), a higher rate, or no visit
CallControls ==
    {[conversions |-> 0, visits |-> 10, unsubscribe_rate |-> Absent,
      complaint_rate |-> Absent],
     [conversions |-> 2, visits |-> 10, unsubscribe_rate |-> Absent,
      complaint_rate |-> Absent]}

CallTreatments ==
    {[conversions |-> 2, visits |-> 10, unsubscribe_rate |-> Absent,
      complaint_rate |-> Absent],
     [conversions |-> 8, visits |-> 10, unsubscribe_rate |-> Absent,
      complaint_rate |-> Absent],
     [conversions |-> 1, visits |-> 5, unsubscribe_rate |-> Absent,
      complaint_rate |-> Absent],
     [conversions |-> 1, visits |-> 0, unsubscribe_rate |-> Absent,
      complaint_rate |-> Absent]}

\* the control with no conversion is paired with the treatments at its visits
CallInputs ==
    {[valid |-> TRUE, pairs |-> << <<"control", p[1]>>, <<"A", p[2]>> >>] :
        p \in {q \in CallControls \X CallTreatments :
                  q[1].conversions = 0 => q[2].visits = q[1].visits}}

(***************************************************************************)
(* FunctionAuthorizationFilter (filters/function_auth_filter.py): the hook *)
(* the kernel calls before it executes a function.  A context carries the  *)
(* metadata of the call, the function's name and its arguments.  The text  *)
(* of traffic_allocation is kept as the items split(",") gives, each one   *)
(* an integer literal or not.                                              *)
(***************************************************************************)
authorization_matrix ==
    [StrategyLead |-> {"*"},
     DataSegmenter |-> {"query_customer_segments", "get_segment_details",
                        "execute_sql"},
     ContentCreator |-> {"retrieve_product_info", "extract_citations"},
     ComplianceOfficer |-> {"analyze_content_safety", "validate_brand_compliance",
                            "check_groundedness"},
     ExperimentRunner |-> {"create_feature_flag", "update_traffic_allocation",
                           "calculate_significance", "get_experiment_metrics"}]

high_risk_functions ==
    {"activate_segment", "create_feature_flag", "update_traffic_allocation"}

\* context.metadata.get("agent_name", "Unknown")
AgentName(metadata) ==
    IF "agent_name" \in DOMAIN metadata THEN metadata.agent_name ELSE "Unknown"

\* self.authorization_matrix.get(agent_name, [])
AllowedFunctions(agent_name) ==
    IF agent_name \in DOMAIN authorization_matrix
    THEN authorization_matrix[agent_name]
    ELSE {}

is_authorized(agent_name, function_name) ==
    \/ "*" \in AllowedFunctions(agent_name)
    \/ function_name \in AllowedFunctions(agent_name)

IntLiteral(n) == [is_int |-> TRUE, value |-> n]

NotAnInt == [is_int |-> FALSE, value |-> 0]

\* args.get("traffic_allocation", "").split(","): the empty text gives one
\* empty item
SplitAllocation(arguments) ==
    IF "traffic_allocation" \in DOMAIN arguments
    THEN arguments.traffic_allocation
    ELSE <<NotAnInt>>

RECURSIVE SumAllocations(_)
SumAllocations(allocations) ==
    IF allocations = <<>>
    THEN 0
    ELSE allocations[1].value + SumAllocations(Tail(allocations))

ExposureLimit == 10

\* what the filter leaves behind: the exception it raises, if any, and what it
\* writes to its log after the authorisation check
Granted == [exception |-> NoException, logged |-> "granted"]

Denied == [exception |-> "AuthorizationException", logged |-> "denied"]

\* the exception of line 111 and the ValueError of int() are both caught by
\* the except clause of line 115, which logs a warning
validate_high_risk_call(function_name, arguments) ==
    IF function_name = "create_feature_flag"
    THEN IF \E k \in DOMAIN SplitAllocation(arguments) :
                ~SplitAllocation(arguments)[k].is_int
         THEN [Granted EXCEPT !.logged = "warning"]
         ELSE IF SumAllocations(SplitAllocation(arguments)) > ExposureLimit
         THEN [Granted EXCEPT !.logged = "warning"]
         ELSE Granted
    ELSE IF function_name = "activate_segment"
    THEN [Granted EXCEPT !.logged = "audit"]
    ELSE Granted

on_function_invocation(context) ==
    IF ~is_authorized(AgentName(context.metadata), context.function)
    THEN Denied
    ELSE IF context.function \in high_risk_functions
    THEN validate_high_risk_call(context.function, context.arguments)
    ELSE Granted

\* the metadata, functions and arguments of the calls made
Metadata ==
    {[agent_name |-> a] :
        a \in DOMAIN authorization_matrix \cup {"Intruder"}}
    \cup {[tokens_used |-> 0]}

FunctionNames ==
    {"query_cdp", "retrieve_product_info", "execute_sql", "any_function",
     "activate_segment", "create_feature_flag"}

\* "5,5", "50,50" and "half"
TrafficAllocations ==
    {<<IntLiteral(5), IntLiteral(5)>>, <<IntLiteral(50), IntLiteral(50)>>,
     <<NotAnInt>>}

NoArguments == [segment_id |-> "s1"]

Arguments(function_name) ==
    IF function_name = "create_feature_flag"
    THEN {[traffic_allocation |-> t] : t \in TrafficAllocations} \cup {NoArguments}
    ELSE {NoArguments}

Contexts ==
    UNION {{[metadata |-> m, function |-> f, arguments |-> a] :
               m \in Metadata, a \in Arguments(f)} : f \in FunctionNames}

(***************************************************************************)
(* RateLimitFilter (filters/rate_limit_filter.py).  The two counters are   *)
(* defaultdict(int): an agent without a key reads as 0, and a counter with *)
(* no key at all is empty.  Time is counted in ticks, reset_interval of    *)
(* them to the hour; the limits are those of the configuration.            *)
(***************************************************************************)
RateAgents == {"ExperimentRunner", "Unknown"}

NoCounters == [a \in RateAgents |-> Absent]

\* d[agent_name] of a defaultdict(int)
Counter(d, agent_name) == IF d[agent_name] = Absent THEN 0 ELSE d[agent_name]

\* the filter as __init__ leaves it at time 0
RateLimitFilter ==
    [agent_token_usage |-> NoCounters,
     agent_call_counts |-> NoCounters,
     last_reset |-> 0]

reset_counters(f, time) ==
    [agent_token_usage |-> NoCounters,
     agent_call_counts |-> NoCounters,
     last_reset |-> time]

\* time.time() - self.last_reset > self.reset_interval
ResetDue(f, time) == time - f.last_reset > reset_interval

CallLimitNeverExceeded(count) == FALSE

CallLimitExceeded(count) == count > max_calls_per_agent

\* context.metadata.get("tokens_used", 0)
TokensUsed(metadata) ==
    IF "tokens_used" \in DOMAIN metadata THEN metadata.tokens_used ELSE 0

AddTokens(f, agent_name, tokens_used) ==
    [f EXCEPT !.agent_token_usage[agent_name] =
                  Counter(f.agent_token_usage, agent_name) + tokens_used]

CountCall(f, agent_name) ==
    [f EXCEPT !.agent_call_counts[agent_name] =
                  Counter(f.agent_call_counts, agent_name) + 1]

\* RateLimitFilter.on_function_invocation at the given time: the filter it
\* leaves and the exception it raises.  The log line of a call that passes
\* reads the agent's token counter, which gives it a key
rate_limit_on_function_invocation(f, metadata, time) ==
    LET current == IF ResetDue(f, time) THEN reset_counters(f, time) ELSE f
        counted == CountCall(current, AgentName(metadata))
    IN  IF CallLimitExceeded(counted.agent_call_counts[AgentName(metadata)])
        THEN [filter |-> counted, exception |-> "RateLimitException"]
        ELSE IF TokensUsed(metadata) > 0
        THEN [filter |-> AddTokens(counted, AgentName(metadata), TokensUsed(metadata)),
              exception |-> NoException]
        ELSE [filter |-> AddTokens(counted, AgentName(metadata), 0),
              exception |-> NoException]

on_function_invocation_complete(f, metadata) ==
    AddTokens(f, AgentName(metadata), TokensUsed(metadata))

\* the metadata of the calls made: with and without an agent's name and a
\* token count
RateMetadata ==
    {[agent_name |-> "ExperimentRunner"],
     [agent_name |-> "ExperimentRunner", tokens_used |-> 1],
     [source |-> "test"],
     [tokens_used |-> 1]}

\* what is seen of the calls: the time, the invocations of each agent that
\* passed since the counters were last reset, and the last operation
NoRateCalls ==
    [now |-> 0,
     passed |-> [a \in RateAgents |-> 0],
     last |-> [operation |-> "none", agent_name |-> "", exception |-> NoException,
               reset |-> FALSE, passed_before |-> 0]]

(***************************************************************************)
(* StateManager (core/state_manager.py): the state of one session is one   *)
(* item of the container.  Every operation reads the item, changes its own *)
(* copy and writes the copy back.  A message is known by its number.       *)
(***************************************************************************)
\* the state load_state makes up when read_item raises
NewState ==
    [messages |-> <<>>, status |-> "new", campaign_name |-> FALSE, type |-> FALSE]

\* the container before the session has an item
NoItem == [exists |-> FALSE, item |-> NewState]

\* read_item gives the item; when it raises, because there is no item or for
\* any other reason, the except clause gives a new state
load_state(container, read_ok) ==
    IF container.exists /\ read_ok THEN container.item ELSE NewState

upsert_item(state) == [exists |-> TRUE, item |-> state]

\* what each operation does to the state it loaded
AppendMessage(state, message) == [state EXCEPT !.messages = Append(@, message)]

CampaignMetadata(state, status) ==
    [state EXCEPT !.campaign_name = TRUE, !.status = status, !.type = TRUE]

CampaignStatus(state, status) ==
    [state EXCEPT !.status = status, !.type = @ \/ state.campaign_name]

\* the operations run to their end with nothing in between and no failure
save_state(container, message) ==
    upsert_item(AppendMessage(load_state(container, TRUE), message))

save_campaign_metadata(container, status) ==
    upsert_item(CampaignMetadata(load_state(container, TRUE), status))

update_campaign_status(container, status) ==
    upsert_item(CampaignStatus(load_state(container, TRUE), status))

\* the callers of the state manager: what each one is doing, the state it
\* loaded, and the messages whose save_state completed
Writers == 1..MaxWriters

IdleWriter ==
    [pc |-> "idle", operation |-> "", message |-> 0, status |-> "",
     state |-> NewState]

NoWriters == [writer |-> [w \in Writers |-> IdleWriter], saved |-> {}]

WriterOperations ==
    {[operation |-> "save_state", status |-> ""],
     [operation |-> "save_campaign_metadata", status |-> "in_progress"],
     [operation |-> "update_campaign_status", status |-> "completed"]}

\* the state an operation writes, from the one it loaded
Changed(r) ==
    IF r.operation = "save_state" THEN AppendMessage(r.state, r.message)
    ELSE IF r.operation = "save_campaign_metadata"
    THEN CampaignMetadata(r.state, r.status)
    ELSE CampaignStatus(r.state, r.status)

(***************************************************************************)
(* The campaign stream (api/main.py, create_campaign_stream) and the       *)
(* generator it consumes (MarketingOrchestrator.execute_campaign_request). *)
(* An agent's message is known by its number, the initial instruction of   *)
(* the user is message 0.  The generator is created, runs the chat, is     *)
(* suspended at its yield, and ends by finishing, raising or being closed. *)
(***************************************************************************)
UserMessage == 0

NoStream ==
    [pc |-> "metadata",
     message_count |-> 0,
     events |-> <<>>,
     orchestrator |-> "created",
     terminate |-> FALSE,
     yielded |-> <<>>]

(***************************************************************************)
(* The campaign creation workflow (workflows/campaign_creation.py).  Of a  *)
(* message the workflow reads the name of its agent and, for the           *)
(* compliance officer, whether its content holds the text <APPROVED>.      *)
(***************************************************************************)
WorkflowAgents ==
    {"StrategyLead", "DataSegmenter", "ContentCreator", "ComplianceOfficer",
     "ExperimentRunner"}

WorkflowMessages == [name : WorkflowAgents, approved : BOOLEAN]

\* an approval that, once given, would stay
StickyCompliance(compliance_passed, approved) == compliance_passed \/ approved

\* campaign_creation.py 90: the text of this compliance message decides,
\* whatever the messages before it said
ComplianceCheck(compliance_passed, approved) == approved

\* campaign_creation.py 115-118
WorkflowStatus(compliance_passed, experiment_id) ==
    IF compliance_passed /\ experiment_id THEN "APPROVED" ELSE "PENDING_APPROVAL"

NoWorkflow ==
    [pc |-> "running",
     status |-> "DRAFT",
     segment_info |-> FALSE,
     message_variants |-> 0,
     experiment_id |-> FALSE,
     compliance_passed |-> FALSE,
     messages |-> <<>>]

TypeOK ==
    /\ call \in {"none", "calculate_significance", "run_statistical_analysis",
                 "calculate_two_proportion_test"}
    /\ signif.status \in {"none", "returned", "raised"}
    /\ decision.status \in {"none", "returned", "raised"}
    /\ ab_test.status \in {"none", "returned", "raised"}

Fresh ==
    /\ call = "none"
    /\ signif = NotCalled
    /\ decision = NoDecision
    /\ ab_test = NoTest
    /\ calls = [c \in Callers |-> IdleCall]
    /\ sample_sizes = <<>>
    /\ invocations = <<>>
    /\ rate_limit_filter = RateLimitFilter
    /\ rate_calls = NoRateCalls
    /\ cosmos = NoItem
    /\ writers = NoWriters
    /\ stream = NoStream
    /\ workflow = NoWorkflow

Init ==
    /\ metrics_json \in {InvalidJson} \cup JsonObjects(VariantIds, VariantData, MaxPairs)
    /\ Fresh

InitScenario ==
    /\ metrics_json \in
           {InvalidJson} \cup JsonObjects(ScenarioIds, ScenarioData, MaxScenarioPairs)
    /\ Fresh

\* a caller (a test, the kernel on behalf of an agent) invokes the plugin
CalculateSignificance ==
    /\ call = "none"
    /\ call' = "calculate_significance"
    /\ signif' = calculate_significance(metrics_json)
    /\ UNCHANGED <<metrics_json, decision, ab_test, other_vars>>

\* the agent analyses the experiment whose metrics the provider returned:
\* _parse_plugin_response raises ValueError on metrics that are not JSON, the
\* kernel runs calculate_significance on the parsed metrics (handed over as
\* JSON text, an exception of the plugin reaching the agent), and lines
\* 185-226 work on what it returned
RunStatisticalAnalysis ==
    /\ call = "none"
    /\ call' = "run_statistical_analysis"
    /\ IF ~metrics_json.valid
       THEN /\ signif' = NotCalled
            /\ decision' = AgentRaised("ValueError")
       ELSE /\ signif' = calculate_significance(
                             [valid |-> TRUE,
                              pairs |-> json_loads(metrics_json.pairs, 1)])
            /\ decision' = AnalyseSignif(signif')
    /\ UNCHANGED <<metrics_json, ab_test, other_vars>>

\* a caller compares two variants of the metrics, a the baseline
CalculateTwoProportionTest ==
    /\ call = "none"
    /\ metrics_json.valid
    /\ \E i, j \in 1..Len(metrics_json.pairs) :
          /\ i < j
          /\ LET a == metrics_json.pairs[i][2]
                 b == metrics_json.pairs[j][2]
             IN  ab_test' = calculate_two_proportion_test(
                                a.conversions, a.visits, b.conversions, b.visits)
    /\ call' = "calculate_two_proportion_test"
    /\ UNCHANGED <<metrics_json, signif, decision, other_vars>>

Next ==
    \/ CalculateSignificance
    \/ RunStatisticalAnalysis
    \/ CalculateTwoProportionTest

Spec == Init /\ [][Next]_vars

SpecScenario == InitScenario /\ [][Next]_vars

(***************************************************************************)
(* Concurrent callers.  A caller that is idle calls one of the three       *)
(* functions; the call then advances step by step, any other caller        *)
(* running between two steps, and the caller takes the outcome.            *)
(***************************************************************************)
InFlight(c, function, pc) == calls[c].function = function /\ calls[c].pc = pc

Step(c, r) ==
    /\ calls' = [calls EXCEPT ![c] = r]
    /\ UNCHANGED <<engine_vars, sample_sizes, invocations, rate_limit_filter,
                   rate_calls, campaign_vars>>

PluginParse(c) ==
    /\ calls[c].pc = "idle"
    /\ \E text \in CallInputs \cup {InvalidJson} :
          Step(c, plugin_parse(Invoked("calculate_significance", text)))

\* the loop over the variants reading the control another call left on the
\* plugin
PluginEvaluateSharedControl(c) ==
    /\ InFlight(c, "calculate_significance", "parsed")
    /\ \E d \in Callers :
          /\ d = c \/ calls[d].metrics # <<>>
          /\ (d # c) \/ (\A e \in Callers \ {c} : calls[e].metrics = <<>>)
          /\ HasKey(calls[d].metrics, "control")
          /\ LET ev == EvaluateVariants(calls[c].metrics,
                                        Lookup(calls[d].metrics, "control"), 1)
             IN  Step(c, IF ev.exc # NoException
                         THEN [calls[c] EXCEPT !.signif = PluginRaised(ev.exc),
                                               !.pc = "done"]
                         ELSE [calls[c] EXCEPT !.results = ev.results,
                                               !.pc = "evaluated"])

PluginEvaluate(c) ==
    /\ InFlight(c, "calculate_significance", "parsed")
    /\ Step(c, plugin_evaluate(calls[c]))

\* the winner determined over the results another call left on the plugin
PluginWinnerSharedResults(c) ==
    /\ InFlight(c, "calculate_significance", "evaluated")
    /\ \E d \in Callers :
          /\ d = c \/ calls[d].results # <<>>
          /\ (d # c) \/ (\A e \in Callers \ {c} : calls[e].results = <<>>)
          /\ Step(c, [plugin_winner(calls[c]) EXCEPT
                         !.signif = plugin_winner(calls[d]).signif])

PluginWinner(c) ==
    /\ InFlight(c, "calculate_significance", "evaluated")
    /\ Step(c, plugin_winner(calls[c]))

AgentFetch(c) ==
    /\ calls[c].pc = "idle"
    /\ \E text \in CallInputs \cup {InvalidJson} :
          Step(c, agent_fetch(Invoked("run_statistical_analysis", text)))

AgentSignificance(c) ==
    /\ InFlight(c, "run_statistical_analysis", "fetched")
    /\ Step(c, agent_significance(calls[c]))

AgentAnalyse(c) ==
    /\ InFlight(c, "run_statistical_analysis", "significance")
    /\ Step(c, agent_analyse(calls[c]))

AnalyzerTest(c) ==
    /\ calls[c].pc = "idle"
    /\ \E text \in CallInputs :
          Step(c, analyzer_test(Invoked("calculate_two_proportion_test", text)))

\* the caller takes the outcome of its call
Return(c) ==
    /\ calls[c].pc = "done"
    /\ Step(c, IdleCall)

NextCalls ==
    \E c \in Callers :
        \/ PluginParse(c)
        \/ PluginEvaluate(c)
        \/ PluginWinner(c)
        \/ AgentFetch(c)
        \/ AgentSignificance(c)
        \/ AgentAnalyse(c)
        \/ AnalyzerTest(c)
        \/ Return(c)

InitCalls ==
    /\ metrics_json = InvalidJson
    /\ Fresh

SpecCalls == InitCalls /\ [][NextCalls]_vars

(***************************************************************************)
(* Sample sizes: a caller asks for the sample size of a baseline rate and  *)
(* an effect; sample_sizes keeps the calls made and what each gave.        *)
(***************************************************************************)
CalculateSampleSizeRequired ==
    /\ Len(sample_sizes) < MaxSampleCalls
    /\ \E a \in SampleInputs :
          sample_sizes' =
              Append(sample_sizes,
                     [baseline_rate |-> a[1],
                      minimum_detectable_effect |-> a[2],
                      outcome |-> calculate_sample_size_required(a[1], a[2])])
    /\ UNCHANGED <<engine_vars, calls, invocations, rate_limit_filter, rate_calls,
                   campaign_vars>>

NextSampleSize == CalculateSampleSizeRequired

InitSampleSize ==
    /\ metrics_json = InvalidJson
    /\ Fresh

SpecSampleSize == InitSampleSize /\ [][NextSampleSize]_vars

(***************************************************************************)
(* Function invocations: the kernel passes each call of a function through *)
(* the authorisation filter and executes the function if the filter raised *)
(* nothing; invocations keeps the calls made and what became of each.      *)
(***************************************************************************)
OnFunctionInvocation ==
    /\ Len(invocations) < MaxInvocations
    /\ \E context \in Contexts :
          invocations' =
              Append(invocations,
                     [context |-> context,
                      outcome |-> on_function_invocation(context),
                      function_ran |->
                          on_function_invocation(context).exception = NoException])
    /\ UNCHANGED <<engine_vars, calls, sample_sizes, rate_limit_filter, rate_calls,
                   campaign_vars>>

NextAuth == OnFunctionInvocation

InitAuth ==
    /\ metrics_json = InvalidJson
    /\ Fresh

SpecAuth == InitAuth /\ [][NextAuth]_vars

(***************************************************************************)
(* Rate limiting: time passes, the kernel passes invocations through the   *)
(* rate limiter and reports their completion, and the counters are reset   *)
(* by hand.  An agent that was refused waits for the next reset, and the   *)
(* tokens counted stay within one call of their limit.                     *)
(***************************************************************************)
Tick ==
    /\ rate_calls.now < MaxTime
    /\ rate_calls' = [rate_calls EXCEPT !.now = @ + 1]
    /\ UNCHANGED <<engine_vars, calls, sample_sizes, invocations, rate_limit_filter,
                   campaign_vars>>

TokensCapped(metadata) ==
    Counter(rate_limit_filter.agent_token_usage, AgentName(metadata))
        + TokensUsed(metadata) <= max_tokens_per_agent + 1

RateLimitInvocation ==
    \E metadata \in RateMetadata :
        /\ \/ ResetDue(rate_limit_filter, rate_calls.now)
           \/ /\ Counter(rate_limit_filter.agent_call_counts, AgentName(metadata))
                     <= max_calls_per_agent
              /\ TokensCapped(metadata)
        /\ rate_limit_filter' =
               rate_limit_on_function_invocation(
                   rate_limit_filter, metadata, rate_calls.now).filter
        /\ rate_calls' =
               [now |-> rate_calls.now,
                passed |->
                    [a \in RateAgents |->
                        (IF ResetDue(rate_limit_filter, rate_calls.now)
                         THEN 0 ELSE rate_calls.passed[a])
                        + (IF /\ a = AgentName(metadata)
                              /\ rate_limit_on_function_invocation(
                                     rate_limit_filter, metadata,
                                     rate_calls.now).exception = NoException
                           THEN 1 ELSE 0)],
                last |->
                    [operation |-> "on_function_invocation",
                     agent_name |-> AgentName(metadata),
                     exception |->
                         rate_limit_on_function_invocation(
                             rate_limit_filter, metadata, rate_calls.now).exception,
                     reset |-> ResetDue(rate_limit_filter, rate_calls.now),
                     passed_before |->
                         IF ResetDue(rate_limit_filter, rate_calls.now)
                         THEN 0 ELSE rate_calls.passed[AgentName(metadata)]]]
        /\ UNCHANGED <<engine_vars, calls, sample_sizes, invocations, campaign_vars>>

RateLimitInvocationComplete ==
    \E metadata \in RateMetadata :
        /\ TokensCapped(metadata)
        /\ rate_limit_filter' =
               on_function_invocation_complete(rate_limit_filter, metadata)
        /\ rate_calls' =
               [rate_calls EXCEPT
                   !.last = [operation |-> "on_function_invocation_complete",
                             agent_name |-> AgentName(metadata),
                             exception |-> NoException,
                             reset |-> FALSE,
                             passed_before |-> rate_calls.passed[AgentName(metadata)]]]
        /\ UNCHANGED <<engine_vars, calls, sample_sizes, invocations, campaign_vars>>

ResetCounters ==
    /\ rate_limit_filter' = reset_counters(rate_limit_filter, rate_calls.now)
    /\ rate_calls' =
           [now |-> rate_calls.now,
            passed |-> [a \in RateAgents |-> 0],
            last |-> [operation |-> "_reset_counters", agent_name |-> "",
                      exception |-> NoException, reset |-> TRUE,
                      passed_before |-> 0]]
    /\ UNCHANGED <<engine_vars, calls, sample_sizes, invocations, campaign_vars>>

NextRate ==
    \/ Tick
    \/ RateLimitInvocation
    \/ RateLimitInvocationComplete
    \/ ResetCounters

InitRate ==
    /\ metrics_json = InvalidJson
    /\ Fresh

SpecRate == InitRate /\ [][NextRate]_vars

(***************************************************************************)
(* Session state: each caller runs one operation of the state manager on   *)
(* the session, another caller running between its read and its write.    *)
(* A read or a write may fail.                                             *)
(***************************************************************************)
WriterStep(w, r, container, saved) ==
    /\ writers' = [writer |-> [writers.writer EXCEPT ![w] = r], saved |-> saved]
    /\ cosmos' = container
    /\ UNCHANGED <<engine_vars, calls, sample_sizes, invocations, rate_limit_filter,
                   rate_calls, stream, workflow>>

\* a caller calls an operation; its message is the caller's number
CallStateManager(w) ==
    /\ writers.writer[w].pc = "idle"
    /\ \E o \in WriterOperations :
          WriterStep(w,
                     [IdleWriter EXCEPT !.pc = "called",
                                        !.operation = o.operation,
                                        !.status = o.status,
                                        !.message = w],
                     cosmos, writers.saved)

\* state = await self.load_state(session_id)
LoadState(w) ==
    /\ writers.writer[w].pc = "called"
    /\ \E read_ok \in BOOLEAN :
          WriterStep(w,
                     [writers.writer[w] EXCEPT !.pc = "loaded",
                                               !.state = load_state(cosmos, read_ok)],
                     cosmos, writers.saved)

\* await self.container.upsert_item(state), and the operation returns
UpsertItem(w) ==
    /\ writers.writer[w].pc = "loaded"
    /\ WriterStep(w,
                  [writers.writer[w] EXCEPT !.pc = "returned"],
                  upsert_item(Changed(writers.writer[w])),
                  IF writers.writer[w].operation = "save_state"
                  THEN writers.saved \cup {writers.writer[w].message}
                  ELSE writers.saved)

\* upsert_item raises, and so does the operation
UpsertFails(w) ==
    /\ writers.writer[w].pc = "loaded"
    /\ WriterStep(w, [writers.writer[w] EXCEPT !.pc = "raised"], cosmos,
                  writers.saved)

NextState ==
    \E w \in Writers :
        \/ CallStateManager(w)
        \/ LoadState(w)
        \/ UpsertItem(w)
        \/ UpsertFails(w)

InitState ==
    /\ metrics_json = InvalidJson
    /\ Fresh

SpecState == InitState /\ [][NextState]_vars

(***************************************************************************)
(* One campaign stream.  The generator of the orchestrator runs only when  *)
(* the stream asks it for the next message, up to its next yield; the      *)
(* events are what the stream has sent to its client.  Nothing else writes *)
(* the session and no operation of the state manager fails.                *)
(***************************************************************************)
StreamStep(r, container) ==
    /\ stream' = r
    /\ cosmos' = container
    /\ UNCHANGED <<engine_vars, calls, sample_sizes, invocations, rate_limit_filter,
                   rate_calls, writers, workflow>>

Emit(event) == Append(stream.events, event)

AskingNext(orchestrator) == stream.pc = "next" /\ stream.orchestrator = orchestrator

\* main.py 375-384
SaveCampaignMetadata ==
    /\ stream.pc = "metadata"
    /\ StreamStep([stream EXCEPT !.pc = "started"],
                  save_campaign_metadata(cosmos, "in_progress"))

\* main.py 386
EmitStarted ==
    /\ stream.pc = "started"
    /\ StreamStep([stream EXCEPT !.pc = "next", !.events = Emit("started")], cosmos)

\* orchestrator.py 66-102: the generator starts and saves the instruction
OrchestratorStart ==
    /\ AskingNext("created")
    /\ StreamStep([stream EXCEPT !.orchestrator = "chat"],
                  save_state(cosmos, UserMessage))

\* orchestrator.py 108-164: the chat gives a message, which is yielded
ChatMessage ==
    /\ AskingNext("chat")
    /\ \E terminate \in BOOLEAN :
          StreamStep([stream EXCEPT
                         !.pc = "received",
                         !.orchestrator = "yielded",
                         !.terminate = terminate,
                         !.yielded = Append(@, Len(@) + 1)],
                     cosmos)

\* the chat has no further message: the generator finishes
ChatEnds ==
    /\ AskingNext("chat")
    /\ StreamStep([stream EXCEPT !.pc = "ended", !.orchestrator = "finished"], cosmos)

\* orchestrator.py 190-192: the chat raises, and so does the generator
ChatRaises ==
    /\ AskingNext("chat")
    /\ StreamStep([stream EXCEPT !.pc = "failed", !.orchestrator = "raised"], cosmos)

\* orchestrator.py 166-189: resumed after its yield, the generator saves the
\* message it yielded and stops at the word terminate
OrchestratorSaveState ==
    /\ AskingNext("yielded")
    /\ StreamStep(IF stream.terminate
                  THEN [stream EXCEPT !.pc = "ended", !.orchestrator = "finished"]
                  ELSE [stream EXCEPT !.orchestrator = "chat"],
                  save_state(cosmos, stream.yielded[Len(stream.yielded)]))

\* main.py 396-430: the message is sent to the client and counted
AgentMessageEvent ==
    /\ stream.pc = "received"
    /\ StreamStep([stream EXCEPT
                      !.pc = IF stream.message_count + 1 > message_limit
                             THEN "cutoff" ELSE "next",
                      !.message_count = @ + 1,
                      !.events = Emit("agent_message")],
                  cosmos)

\* main.py 430-436
SafetyCutoff ==
    /\ stream.pc = "cutoff"
    /\ StreamStep([stream EXCEPT !.pc = "ended", !.events = Emit("stopped")],
                  update_campaign_status(cosmos, "stopped"))

\* main.py 438-550: after the loop, however it was left
StreamEnded ==
    /\ stream.pc = "ended"
    /\ IF stream.message_count = 0
       THEN StreamStep([stream EXCEPT !.pc = "done", !.events = Emit("error")],
                       cosmos)
       ELSE StreamStep([stream EXCEPT !.pc = "done", !.events = Emit("completed")],
                       update_campaign_status(cosmos, "completed"))

\* main.py 552-559
StreamFailed ==
    /\ stream.pc = "failed"
    /\ StreamStep([stream EXCEPT !.pc = "done", !.events = Emit("error")],
                  update_campaign_status(cosmos, "failed"))

\* the stream left the loop while the generator was suspended at its yield:
\* the generator is closed there and runs no further
OrchestratorClosed ==
    /\ stream.pc \in {"ended", "done"}
    /\ stream.orchestrator = "yielded"
    /\ StreamStep([stream EXCEPT !.orchestrator = "closed"], cosmos)

NextStream ==
    \/ SaveCampaignMetadata
    \/ EmitStarted
    \/ OrchestratorStart
    \/ ChatMessage
    \/ ChatEnds
    \/ ChatRaises
    \/ OrchestratorSaveState
    \/ AgentMessageEvent
    \/ SafetyCutoff
    \/ StreamEnded
    \/ StreamFailed
    \/ OrchestratorClosed

InitStream ==
    /\ metrics_json = InvalidJson
    /\ Fresh

SpecStream == InitStream /\ [][NextStream]_vars

(***************************************************************************)
(* One execution of the campaign creation workflow: it takes the messages  *)
(* of the orchestrator one by one, then returns the campaign, unless the   *)
(* orchestrator raises.                                                    *)
(***************************************************************************)
WorkflowStep(r) ==
    /\ workflow' = r
    /\ UNCHANGED <<engine_vars, calls, sample_sizes, invocations, rate_limit_filter,
                   rate_calls, cosmos, writers, stream>>

\* campaign_creation.py 65-99
WorkflowMessage ==
    /\ workflow.pc = "running"
    /\ Len(workflow.messages) < MaxWorkflowMessages
    /\ \E message \in WorkflowMessages :
          LET received == [workflow EXCEPT !.messages = Append(@, message)]
          IN  WorkflowStep(
                CASE message.name = "DataSegmenter" ->
                        [received EXCEPT !.segment_info = TRUE]
                  [] message.name = "ContentCreator" ->
                        [received EXCEPT !.message_variants = @ + 3]
                  [] message.name = "ComplianceOfficer" ->
                        [received EXCEPT !.compliance_passed =
                                             ComplianceCheck(@, message.approved)]
                  [] message.name = "ExperimentRunner" ->
                        [received EXCEPT !.experiment_id = TRUE]
                  [] OTHER -> received)

\* campaign_creation.py 104-121
WorkflowReturn ==
    /\ workflow.pc = "running"
    /\ WorkflowStep([workflow EXCEPT
                        !.pc = "returned",
                        !.status = WorkflowStatus(workflow.compliance_passed,
                                                  workflow.experiment_id)])

\* orchestrator.py 190-192: the orchestrator raises and execute with it
WorkflowRaises ==
    /\ workflow.pc = "running"
    /\ WorkflowStep([workflow EXCEPT !.pc = "raised"])

NextWorkflow ==
    \/ WorkflowMessage
    \/ WorkflowReturn
    \/ WorkflowRaises

InitWorkflow ==
    /\ metrics_json = InvalidJson
    /\ Fresh

SpecWorkflow == InitWorkflow /\ [][NextWorkflow]_vars

(***************************************************************************)
(* What the specification says of an evaluation, in terms of its input.    *)
(***************************************************************************)
Metrics == json_loads(metrics_json.pairs, 1)

HasControl == metrics_json.valid /\ HasKey(Metrics, "control")

TreatmentIdx == {i \in 1..Len(Metrics) : Metrics[i][1] # "control"}

DuplicateIds ==
    \E i, j \in 1..Len(metrics_json.pairs) :
        i < j /\ metrics_json.pairs[i][1] = metrics_json.pairs[j][1]

\* the input the specification accepts
ValidInput ==
    /\ HasControl
    /\ TreatmentIdx # {}
    /\ ~DuplicateIds
    /\ \A i \in 1..Len(Metrics) :
          /\ Metrics[i][2].visits > 0
          /\ Metrics[i][2].conversions >= 0
          /\ Metrics[i][2].conversions <= Metrics[i][2].visits

\* both sides report the rate and the treatment's exceeds num/den times the
\* control's
RateExceeds(t, c, num, den) == t # Absent /\ c # Absent /\ den * t > num * c

TreatmentViolates(t, c) ==
    \/ RateExceeds(t.unsubscribe_rate, c.unsubscribe_rate, 12, 10)
    \/ RateExceeds(t.complaint_rate, c.complaint_rate, 11, 10)

SomeTreatmentViolates ==
    /\ HasControl
    /\ \E i \in TreatmentIdx : TreatmentViolates(Metrics[i][2], Lookup(Metrics, "control"))

NoGuardrailData ==
    \A i \in 1..Len(Metrics) :
        /\ Metrics[i][2].unsubscribe_rate = Absent
        /\ Metrics[i][2].complaint_rate = Absent

AnalysisCalled == call = "run_statistical_analysis"

PluginCalled == call = "calculate_significance"

PluginReturnedResults == signif.status = "returned" /\ signif.error = NoError

\* the entries of results that pass the winner test, by position
Qualifying ==
    {i \in 1..Len(signif.results) :
        /\ signif.results[i][1] # "control"
        /\ RLess(ZCritSq, signif.results[i][2].p_value.tail_of)
        /\ signif.results[i][2].uplift_percent.num > 0}

Halt == [token |-> "<HALT_EXPERIMENT>", variant |-> NoVariant]

Deploy(v) == [token |-> "Deploy Variant", variant |-> v]

NoDecisionYet == [token |-> "<NO_DECISION_YET>", variant |-> NoVariant]

(***************************************************************************)
(* C1.  Guardrail precedence: whenever a treatment of the analysed         *)
(* experiment violates a guardrail, the recommendation of the analysis is  *)
(* HALT.  Fails: run_statistical_analysis raises AttributeError on every   *)
(* output of calculate_significance and recommends nothing.                *)
(***************************************************************************)
C1_GuardrailPrecedence ==
    (AnalysisCalled /\ ValidInput /\ SomeTreatmentViolates)
        => decision.recommendation = Halt

(***************************************************************************)
(* C2.  As claimed: a significant_winner is reported only if no treatment  *)
(* violates a guardrail (and the winner has p < 0.05 and positive uplift). *)
(* Fails: calculate_significance names a winner whatever the guardrail     *)
(* rates are.                                                              *)
(***************************************************************************)
C2_WinnerOnlyIfGuardrailsOk ==
    (PluginReturnedResults /\ signif.significant_winner # NoVariant)
        => ~SomeTreatmentViolates

(***************************************************************************)
(* C2, amended.  In every output of calculate_significance the             *)
(* significant_winner, when set, is a variant other than the control whose *)
(* result has p_value < 0.05 and uplift_percent > 0.                       *)
(***************************************************************************)
C2_WinnerIsSignificantAndPositive ==
    (PluginReturnedResults /\ signif.significant_winner # NoVariant)
        => \E i \in Qualifying : signif.results[i][1] = signif.significant_winner

\* a winner is reported although a treatment violates a guardrail
C2_Witness ==
    /\ PluginReturnedResults
    /\ signif.significant_winner # NoVariant
    /\ SomeTreatmentViolates

(***************************************************************************)
(* C3.  The recommendation of the analysis of a valid input is HALT when a *)
(* treatment violates a guardrail, otherwise DEPLOY(significant_winner)    *)
(* when there is one, otherwise NO_DECISION_YET.  Fails: the analysis      *)
(* raises and recommends nothing.                                          *)
(***************************************************************************)
C3_RecommendationRule ==
    (AnalysisCalled /\ ValidInput)
        => decision.recommendation =
               IF SomeTreatmentViolates THEN Halt
               ELSE IF signif.significant_winner # NoVariant
               THEN Deploy(signif.significant_winner)
               ELSE NoDecisionYet

(***************************************************************************)
(* C4.  First match: the results are in the order of the metrics, and      *)
(* significant_winner is the first entry other than the control with       *)
(* p_value < 0.05 and uplift_percent > 0, or none when no entry qualifies. *)
(***************************************************************************)
C4_FirstMatchWinner ==
    PluginReturnedResults =>
        /\ Keys(signif.results, 1) = Keys(Metrics, 1)
        /\ IF Qualifying = {} THEN signif.significant_winner = NoVariant
           ELSE \E i \in Qualifying :
                   /\ \A j \in Qualifying : i <= j
                   /\ signif.significant_winner = signif.results[i][1]

\* two treatments qualify, the later with the higher uplift, and the earlier
\* is the winner
C4_Witness ==
    /\ PluginReturnedResults
    /\ \E i, j \in Qualifying :
          /\ i < j
          /\ RLess(signif.results[i][2].uplift_percent,
                   signif.results[j][2].uplift_percent)
          /\ signif.significant_winner = signif.results[i][1]
    /\ ValidInput

(***************************************************************************)
(* C5.  The guardrail_status of the analysis of a valid input is VIOLATED  *)
(* exactly when a treatment's unsubscribe_rate exceeds 1.2 times, or its   *)
(* complaint_rate 1.1 times, the control's (both reported), and OK         *)
(* otherwise.  Fails: the analysis raises and reports no status.           *)
(***************************************************************************)
C5_GuardrailStatus ==
    (AnalysisCalled /\ ValidInput)
        => decision.guardrail_status =
               IF SomeTreatmentViolates THEN "VIOLATED" ELSE "OK"

(***************************************************************************)
(* C6.  With no guardrail rate on any variant of a valid input, the        *)
(* analysis raises nothing and reports guardrail_status OK.  Fails: the    *)
(* analysis raises AttributeError.                                         *)
(***************************************************************************)
C6_AbsentGuardrailSkipped ==
    (AnalysisCalled /\ ValidInput /\ NoGuardrailData)
        => (decision.status = "returned" /\ decision.guardrail_status = "OK")

(***************************************************************************)
(* C7.  calculate_significance rejects metrics in which a variant has      *)
(* visits <= 0, and every result it returns is computed with the visits    *)
(* supplied.  Fails: max(visits, 1) stands in for the visits of a variant  *)
(* other than the control.                                                 *)
(***************************************************************************)
C7_NonPositiveVisitsRejected ==
    /\ (PluginCalled /\ HasControl /\ \E i \in 1..Len(Metrics) : Metrics[i][2].visits <= 0)
           => ~PluginReturnedResults
    /\ PluginReturnedResults
           => \A i \in 1..Len(signif.results) :
                  signif.results[i][2].visits = Metrics[i][2].visits

(***************************************************************************)
(* C8.  calculate_significance rejects metrics in which a variant has more *)
(* conversions than visits, and every conversion_rate it returns lies in   *)
(* [0, 1].  Fails: nothing compares conversions with visits.               *)
(***************************************************************************)
C8_ConversionsWithinVisits ==
    /\ (/\ PluginCalled
        /\ HasControl
        /\ \E i \in 1..Len(Metrics) :
              /\ Metrics[i][2].visits > 0
              /\ Metrics[i][2].conversions > Metrics[i][2].visits)
           => ~PluginReturnedResults
    /\ PluginReturnedResults
           => \A i \in 1..Len(signif.results) :
                  /\ signif.results[i][2].conversion_rate.num >= 0
                  /\ signif.results[i][2].conversion_rate.num
                         <= signif.results[i][2].conversion_rate.den

(***************************************************************************)
(* C9.  calculate_significance returns no results for metrics that hold    *)
(* the control alone, or that repeat a variant id.  Fails: the control     *)
(* alone gets results with no winner, and a repeated id is merged by       *)
(* json.loads.                                                             *)
(***************************************************************************)
C9_EmptyOrDuplicateRejected ==
    (PluginCalled /\ HasControl /\ (TreatmentIdx = {} \/ DuplicateIds))
        => ~PluginReturnedResults

(***************************************************************************)
(* C10.  The concrete scenario: control 100 of 1000, treatment A 120 of    *)
(* 1000, no guardrail rates.                                               *)
(***************************************************************************)
C10_Scenario ==
    metrics_json =
        [valid |-> TRUE,
         pairs |-> << <<"control", [conversions |-> 100, visits |-> 1000,
                                    unsubscribe_rate |-> Absent,
                                    complaint_rate |-> Absent]>>,
                      <<"A", [conversions |-> 120, visits |-> 1000,
                              unsubscribe_rate |-> Absent,
                              complaint_rate |-> Absent]>> >>]

\* C10 as claimed: in the scenario A has an uplift of 20 percent and is
\* significant at 0.05, so A is the significant_winner, and the analysis
\* reports guardrail_status OK and recommends DEPLOY(A).
C10_ScenarioDeploysA ==
    /\ (C10_Scenario /\ signif.status # "none")
           => /\ PluginReturnedResults
              /\ signif.results[2][2].uplift_percent = RInt(20)
              /\ PValueBelowAlpha(signif.results[2][2].p_value)
              /\ signif.significant_winner = "A"
    /\ (C10_Scenario /\ AnalysisCalled)
           => /\ decision.guardrail_status = "OK"
              /\ decision.recommendation = Deploy("A")

\* C10, amended: in the scenario calculate_significance gives A an uplift
\* of 20 percent and z^2 = 2000/979 (z about 1.43, p about 0.153), which is
\* not significant at 0.05, and reports no significant_winner.
C10_ScenarioNotSignificant ==
    (C10_Scenario /\ signif.status # "none")
        => /\ PluginReturnedResults
           /\ signif.results[2][1] = "A"
           /\ signif.results[2][2].conversion_rate = Rat(12, 100)
           /\ signif.results[2][2].uplift_percent = RInt(20)
           /\ signif.results[2][2].z_sq = Rat(2000, 979)
           /\ ~RLess(ZCritSq, signif.results[2][2].p_value.tail_of)
           /\ signif.significant_winner = NoVariant

C10_Witness == C10_Scenario /\ PluginCalled /\ PluginReturnedResults

(***************************************************************************)
(* What the specification says of one comparison of the analyzer.          *)
(***************************************************************************)
TestCalled == call = "calculate_two_proportion_test"

\* every variant the comparison may be given has visits > 0 and
\* 0 <= conversions <= visits
ValidPairs ==
    \A i \in 1..Len(metrics_json.pairs) :
        /\ metrics_json.pairs[i][2].visits > 0
        /\ metrics_json.pairs[i][2].conversions >= 0
        /\ metrics_json.pairs[i][2].conversions <= metrics_json.pairs[i][2].visits

(***************************************************************************)
(* C11.  Zero control rate: for a valid input whose control has no         *)
(* conversion, calculate_significance raises nothing and every result has  *)
(* uplift_percent 0, whatever the conversions of the treatment; and a      *)
(* comparison of the analyzer whose baseline has no conversion raises      *)
(* nothing and has uplift_percentage 0.                                    *)
(***************************************************************************)
C11_ZeroControlRate ==
    /\ (PluginCalled /\ ValidInput /\ Lookup(Metrics, "control").conversions = 0)
           => /\ PluginReturnedResults
              /\ \A i \in 1..Len(signif.results) :
                     signif.results[i][2].uplift_percent = RInt(0)
    /\ (TestCalled /\ ValidPairs) => ab_test.status = "returned"
    /\ (ab_test.status = "returned" /\ ab_test.rate_a.num = 0)
           => ab_test.uplift_percentage = RInt(0)

\* the control has no conversion, a treatment has some, and results came back
C11_Witness ==
    /\ PluginCalled
    /\ ValidInput
    /\ Lookup(Metrics, "control").conversions = 0
    /\ \E i \in TreatmentIdx : Metrics[i][2].conversions > 0
    /\ PluginReturnedResults

\* the variants of the metrics whose pooled standard error against the
\* control is 0: no conversion on either side, or only conversions
Degenerate ==
    {i \in 1..Len(Metrics) :
        LET c == Lookup(Metrics, "control")
            d == Metrics[i][2]
        IN  \/ c.conversions + d.conversions = 0
            \/ c.conversions + d.conversions = c.visits + d.visits}

(***************************************************************************)
(* C13.  Totality: on every valid input calculate_significance raises      *)
(* nothing and returns a result for every variant of the metrics, and a    *)
(* variant whose pooled standard error is 0 (both proportions at 0 or both *)
(* at 1) has z_score 0; a comparison of the analyzer of valid variants     *)
(* raises nothing either.                                                  *)
(***************************************************************************)
C13_TotalOnValidInput ==
    /\ (PluginCalled /\ ValidInput)
           => /\ PluginReturnedResults
              /\ Keys(signif.results, 1) = Keys(Metrics, 1)
              /\ \A i \in Degenerate :
                     /\ signif.results[i][2].z_sign = 0
                     /\ signif.results[i][2].z_sq = RInt(0)
    /\ (TestCalled /\ ValidPairs)
           => /\ ab_test.status = "returned"
              /\ (ab_test.rate_a = ab_test.rate_b /\ ab_test.rate_a.num = ab_test.rate_a.den)
                     => ab_test.z_sign = 0

\* a treatment and the control both at 100 percent, and one result each
C13_Witness ==
    /\ PluginCalled
    /\ ValidInput
    /\ PluginReturnedResults
    /\ \E i \in Degenerate \cap TreatmentIdx : Metrics[i][2].conversions > 0

(***************************************************************************)
(* What the specification says of the calls of concurrent callers.         *)
(***************************************************************************)
PluginDone(c) == InFlight(c, "calculate_significance", "done")

AgentDone(c) == InFlight(c, "run_statistical_analysis", "done")

AnalyzerDone(c) == InFlight(c, "calculate_two_proportion_test", "done")

\* the call of calculate_significance returned results
PluginResults(c) ==
    /\ PluginDone(c)
    /\ calls[c].signif.status = "returned"
    /\ calls[c].signif.error = NoError

\* the data of the control and of treatment A in the caller's text
ControlOf(c) == calls[c].metrics_json.pairs[1][2]

TreatmentOf(c) == calls[c].metrics_json.pairs[2][2]

\* the result of treatment A
ResultOf(c) == calls[c].signif.results[2][2]

(***************************************************************************)
(* C12.  Identical rates: in every output of calculate_significance a      *)
(* variant whose conversion_rate equals the control's has z_score 0 and    *)
(* p_value 1 and is not the significant_winner, whatever the visits of the *)
(* two are; and a comparison of the analyzer with rate_a = rate_b has      *)
(* z_score 0, p_value 1 and is not significant.                            *)
(***************************************************************************)
C12_IdenticalRates ==
    \A c \in Callers :
        /\ PluginResults(c) =>
               \A i \in 1..Len(calls[c].signif.results) :
                   LET vid == calls[c].signif.results[i][1]
                       stats == calls[c].signif.results[i][2]
                       control == Lookup(calls[c].signif.results, "control")
                   IN  stats.conversion_rate = control.conversion_rate
                           => /\ stats.z_sign = 0
                              /\ stats.z_sq = RInt(0)
                              /\ PValueIsOne(stats.p_value)
                              /\ calls[c].signif.significant_winner # vid
        /\ (/\ AnalyzerDone(c)
            /\ calls[c].ab_test.status = "returned"
            /\ calls[c].ab_test.rate_a = calls[c].ab_test.rate_b)
               => /\ calls[c].ab_test.z_sign = 0
                  /\ calls[c].ab_test.z_sq = RInt(0)
                  /\ PValueIsOne(calls[c].ab_test.p_value)
                  /\ ~calls[c].ab_test.is_significant

\* a treatment with the control's rate at other visits (1 of 5 against 2 of
\* 10) has been evaluated
C12_Witness ==
    \E c \in Callers :
        /\ PluginResults(c)
        /\ TreatmentOf(c).visits > 0
        /\ TreatmentOf(c).visits # ControlOf(c).visits
        /\ ControlOf(c).conversions > 0
        /\ ResultOf(c).conversion_rate = calls[c].signif.results[1][2].conversion_rate

\* calls c and d were given the same control and the same visits of the
\* treatment, and d more conversions of the treatment than c
MoreConversions(c, d) ==
    /\ ControlOf(c) = ControlOf(d)
    /\ TreatmentOf(c).visits = TreatmentOf(d).visits
    /\ TreatmentOf(c).conversions < TreatmentOf(d).conversions

\* two comparisons of the analyzer that returned, d with more conversions
AnalyzerMoreConversions(c, d) ==
    /\ AnalyzerDone(c) /\ calls[c].ab_test.status = "returned"
    /\ AnalyzerDone(d) /\ calls[d].ab_test.status = "returned"
    /\ MoreConversions(c, d)

(***************************************************************************)
(* C14, as claimed.  Monotonicity: of two evaluations with the same        *)
(* control and the same visits of the treatment, the one with more         *)
(* conversions of the treatment has the strictly higher conversion_rate    *)
(* and the strictly higher uplift_percent, for every control.  Fails for a *)
(* control with no conversion, where the uplift is 0 both times.           *)
(***************************************************************************)
C14_StrictlyMonotone ==
    \A c, d \in Callers :
        /\ (PluginResults(c) /\ PluginResults(d) /\ MoreConversions(c, d))
               => /\ RLess(ResultOf(c).conversion_rate, ResultOf(d).conversion_rate)
                  /\ RLess(ResultOf(c).uplift_percent, ResultOf(d).uplift_percent)
        /\ AnalyzerMoreConversions(c, d)
               => /\ RLess(calls[c].ab_test.rate_b, calls[d].ab_test.rate_b)
                  /\ RLess(calls[c].ab_test.uplift_percentage,
                           calls[d].ab_test.uplift_percentage)

(***************************************************************************)
(* C14, amended.  Of two evaluations with the same control and the same    *)
(* visits of the treatment, the one with more conversions of the treatment *)
(* has the strictly higher conversion_rate; it has the strictly higher     *)
(* uplift_percent when the control has a conversion, and both have         *)
(* uplift_percent 0 when the control has none.                             *)
(***************************************************************************)
C14_MonotoneForPositiveControl ==
    \A c, d \in Callers :
        /\ (PluginResults(c) /\ PluginResults(d) /\ MoreConversions(c, d))
               => /\ RLess(ResultOf(c).conversion_rate, ResultOf(d).conversion_rate)
                  /\ IF ControlOf(c).conversions > 0
                     THEN RLess(ResultOf(c).uplift_percent, ResultOf(d).uplift_percent)
                     ELSE /\ ResultOf(c).uplift_percent = RInt(0)
                          /\ ResultOf(d).uplift_percent = RInt(0)
        /\ AnalyzerMoreConversions(c, d)
               => /\ RLess(calls[c].ab_test.rate_b, calls[d].ab_test.rate_b)
                  /\ IF ControlOf(c).conversions > 0
                     THEN RLess(calls[c].ab_test.uplift_percentage,
                                calls[d].ab_test.uplift_percentage)
                     ELSE /\ calls[c].ab_test.uplift_percentage = RInt(0)
                          /\ calls[d].ab_test.uplift_percentage = RInt(0)

\* two evaluations against a control with conversions, the treatment at 2 and
\* at 8 of 10
C14_Witness ==
    \E c, d \in Callers :
        /\ PluginResults(c)
        /\ PluginResults(d)
        /\ MoreConversions(c, d)
        /\ ControlOf(c).conversions > 0

\* what the call of c has given back so far
OutcomeOf(c) == <<calls[c].signif, calls[c].decision, calls[c].ab_test>>

OutcomeAlone(c) ==
    LET text == calls[c].metrics_json
        parsed == [valid |-> TRUE, pairs |-> json_loads(text.pairs, 1)]
    IN  IF calls[c].function = "calculate_significance"
        THEN <<calculate_significance(text), NoDecision, NoTest>>
        ELSE IF calls[c].function = "run_statistical_analysis"
        THEN IF ~text.valid THEN <<NotCalled, AgentRaised("ValueError"), NoTest>>
             ELSE <<calculate_significance(parsed),
                    AnalyseSignif(calculate_significance(parsed)), NoTest>>
        ELSE <<NotCalled, NoDecision,
               calculate_two_proportion_test(
                   text.pairs[1][2].conversions, text.pairs[1][2].visits,
                   text.pairs[2][2].conversions, text.pairs[2][2].visits)>>

C17_MetricsUnchanged ==
    \A c \in Callers :
        (/\ calls[c].pc # "idle"
         /\ calls[c].function # "calculate_two_proportion_test"
         /\ calls[c].metrics_json.valid)
            => calls[c].metrics = json_loads(calls[c].metrics_json.pairs, 1)

\* a call has returned a result computed with visits 1 for a variant whose
\* metrics say visits 0
C17_Witness ==
    \E c \in Callers :
        /\ PluginResults(c)
        /\ TreatmentOf(c).visits = 0
        /\ ResultOf(c).visits = 1

(***************************************************************************)
(* What the specification says of requiredSampleSize, in terms of the      *)
(* arguments of a call.                                                    *)
(***************************************************************************)
SampleCalls == 1..Len(sample_sizes)

BaselineOf(i) == sample_sizes[i].baseline_rate

EffectOf(i) == sample_sizes[i].minimum_detectable_effect

SampleReturned(i) == sample_sizes[i].outcome.status = "returned"

\* rate_b == baselineRate, the computed denominator being zero
RateBIsBaseline(i) == RMul(BaselineOf(i).m, OnePlus(EffectOf(i))) = BaselineOf(i).m

\* pooled = baselineRate * (1 + minimumDetectableEffect / 2)
PooledOf(i) ==
    RMul(BaselineOf(i).m, RAdd(RInt(1), RMul(EffectOf(i).m, Rat(1, 2))))

\* calls i and j have the same baseline rate and returned, j for the larger
\* effect
LargerEffect(i, j) ==
    /\ SampleReturned(i)
    /\ SampleReturned(j)
    /\ BaselineOf(i) = BaselineOf(j)
    /\ RLess(EffectOf(i).m, EffectOf(j).m)

(***************************************************************************)
(* C18.  calculate_sample_size_required raises ValueError and gives no     *)
(* sample size whenever the baseline rate is <= 0, or the effect is <= 0,  *)
(* or rate_b equals the baseline rate so that the denominator is zero.     *)
(***************************************************************************)
C18_SampleSizeValidation ==
    \A i \in SampleCalls :
        (\/ BaselineOf(i).m.num <= 0
         \/ EffectOf(i).m.num <= 0
         \/ RateBIsBaseline(i))
            => sample_sizes[i].outcome = SampleRaised("ValueError")

\* a positive baseline and a positive effect that 1 + effect rounds away: the
\* denominator is zero and the call raised
C18_Witness ==
    \E i \in SampleCalls :
        /\ BaselineOf(i).m.num > 0
        /\ EffectOf(i).m.num > 0
        /\ RateBIsBaseline(i)
        /\ sample_sizes[i].outcome.status = "raised"

(***************************************************************************)
(* C19, as claimed.  For a fixed baseline rate the sample size strictly    *)
(* decreases as the effect increases.  Fails: math.ceil gives effects 8.9  *)
(* and 9 at baseline 0.1 the same sample size 5, and at baseline 0.9 the   *)
(* sample size rises from -10 at effect 0.5 to -9 at effect 1.             *)
(***************************************************************************)
C19_StrictlyDecreasing ==
    \A i, j \in SampleCalls :
        LargerEffect(i, j)
            => sample_sizes[j].outcome.sample_size < sample_sizes[i].outcome.sample_size

(***************************************************************************)
(* C19, amended.  For a fixed baseline rate the sample size of the larger  *)
(* effect is at most that of the smaller one, whenever the pooled rate of  *)
(* the smaller effect, baseline * (1 + effect / 2), is at most 1.  A call  *)
(* whose pooled rate is below 1 returns at least 1, and a call whose       *)
(* pooled rate is 1 or more returns 0 or less.                             *)
(***************************************************************************)
C19_NonIncreasing ==
    /\ \A i, j \in SampleCalls :
           (LargerEffect(i, j) /\ ~RLess(RInt(1), PooledOf(i)))
               => sample_sizes[j].outcome.sample_size
                      <= sample_sizes[i].outcome.sample_size
    /\ \A i \in SampleCalls :
           SampleReturned(i)
               => IF RLess(PooledOf(i), RInt(1))
                  THEN sample_sizes[i].outcome.sample_size >= 1
                  ELSE sample_sizes[i].outcome.sample_size <= 0

\* two effects at one baseline, both in range, with the same sample size
C19_Witness ==
    \E i, j \in SampleCalls :
        /\ LargerEffect(i, j)
        /\ ~RLess(RInt(1), PooledOf(j))
        /\ sample_sizes[j].outcome.sample_size = sample_sizes[i].outcome.sample_size

(***************************************************************************)
(* What the filter's tests say of the authorisation filter.                *)
(***************************************************************************)
Invocations == 1..Len(invocations)

CallerOf(i) == AgentName(invocations[i].context.metadata)

FunctionOf(i) == invocations[i].context.function

Refused(i) == invocations[i].outcome.exception = "AuthorizationException"

(***************************************************************************)
(* C20, as claimed.  A call is refused with AuthorizationException exactly *)
(* when the caller's allow-list holds neither the wildcard nor the         *)
(* function: StrategyLead may call any function, DataSegmenter may call    *)
(* query_cdp, ContentCreator may call retrieve_product_info but not        *)
(* query_cdp, an agent outside the matrix may call nothing, and a refused  *)
(* function does not run.  Fails: the allow-list of DataSegmenter does not *)
(* hold query_cdp, so that call is refused.                                *)
(***************************************************************************)
C20_AuthorizationMatrix ==
    \A i \in Invocations :
        /\ Refused(i) <=> ~is_authorized(CallerOf(i), FunctionOf(i))
        /\ CallerOf(i) = "StrategyLead" => ~Refused(i)
        /\ (CallerOf(i) = "DataSegmenter" /\ FunctionOf(i) = "query_cdp")
               => ~Refused(i)
        /\ (CallerOf(i) = "ContentCreator" /\ FunctionOf(i) = "retrieve_product_info")
               => ~Refused(i)
        /\ (CallerOf(i) = "ContentCreator" /\ FunctionOf(i) = "query_cdp")
               => Refused(i)
        /\ CallerOf(i) \notin DOMAIN authorization_matrix => Refused(i)
        /\ Refused(i) => ~invocations[i].function_ran

(***************************************************************************)
(* What the analysis reads of the plugin's output.                         *)
(***************************************************************************)
\* the keys of the parsed output that the loops of lines 189 and 203 take for
\* variants: every key but "control"
KeysTreatedAsVariants ==
    {SignifJson(signif)[i][1] : i \in 1..Len(SignifJson(signif))} \ {"control"}

MetricsVariants == {Metrics[i][1] : i \in 1..Len(Metrics)}

(***************************************************************************)
(* C21, as claimed.  An analysis of the plugin's output returns a decision *)
(* whose winner is the plugin's significant_winner, and every key it takes *)
(* for a variant is a variant of the metrics.  Fails: the keys it iterates *)
(* are "results" and "significant_winner" (or "error"), and it raises      *)
(* AttributeError on the value of "significant_winner".                    *)
(***************************************************************************)
C21_AgentReadsPluginResults ==
    (AnalysisCalled /\ signif.status = "returned")
        => /\ decision.status = "returned"
           /\ decision.winner = signif.significant_winner
           /\ KeysTreatedAsVariants \subseteq MetricsVariants

(***************************************************************************)
(* C22, as claimed.  The control is never the significant_winner, in the   *)
(* plugin or in the analysis, never causes a guardrail violation, and the  *)
(* results hold no entry for the control.  Fails: calculate_significance   *)
(* evaluates every variant of the metrics, the control included.           *)
(***************************************************************************)
C22_ControlExcluded ==
    /\ PluginReturnedResults
           => /\ signif.significant_winner # "control"
              /\ \A i \in 1..Len(signif.results) : signif.results[i][1] # "control"
    /\ decision.winner # "control"
    /\ decision.guardrail_status # "VIOLATED"

(***************************************************************************)
(* C22, amended.  The control is never the significant_winner of           *)
(* calculate_significance, and run_statistical_analysis never reports it   *)
(* as winner nor a guardrail violation; the results hold one entry for     *)
(* every variant of the metrics, the control too, whose entry compares the *)
(* control with itself: uplift_percent 0 and z_score 0.                    *)
(***************************************************************************)
C22_ControlNeverWinner ==
    /\ PluginReturnedResults
           => /\ signif.significant_winner # "control"
              /\ Keys(signif.results, 1) = Keys(Metrics, 1)
              /\ \A i \in 1..Len(signif.results) :
                     signif.results[i][1] = "control"
                         => /\ signif.results[i][2].uplift_percent = RInt(0)
                            /\ signif.results[i][2].z_sq = RInt(0)
    /\ decision.winner # "control"
    /\ decision.guardrail_status # "VIOLATED"

\* the control comes first in a valid input, a treatment violates a guardrail,
\* the results hold the control's entry and a treatment after it is the winner
C22_Witness ==
    /\ PluginReturnedResults
    /\ ValidInput
    /\ SomeTreatmentViolates
    /\ signif.results[1][1] = "control"
    /\ signif.significant_winner \notin {NoVariant, "control"}

ExposureAboveLimit(i) ==
    /\ FunctionOf(i) = "create_feature_flag"
    /\ is_authorized(CallerOf(i), FunctionOf(i))
    /\ \A k \in DOMAIN SplitAllocation(invocations[i].context.arguments) :
           SplitAllocation(invocations[i].context.arguments)[k].is_int
    /\ SumAllocations(SplitAllocation(invocations[i].context.arguments)) > ExposureLimit

(***************************************************************************)
(* C24, as claimed.  A call of create_feature_flag whose allocations total *)
(* more than 10 is refused with AuthorizationException and the function    *)
(* does not run.  Fails: the exception is raised inside the try block of   *)
(* _validate_high_risk_call and caught by its except clause, which only    *)
(* logs a warning; the filter returns and the function runs.               *)
(***************************************************************************)
C24_HighExposureBlocked ==
    \A i \in Invocations :
        ExposureAboveLimit(i) => (Refused(i) /\ ~invocations[i].function_ran)

(***************************************************************************)
(* What is said of the rate limiter, in terms of the calls seen.           *)
(***************************************************************************)
LastInvocation == rate_calls.last.operation = "on_function_invocation"

RateLimited == rate_calls.last.exception = "RateLimitException"

CountersEmpty(f) ==
    /\ f.agent_call_counts = NoCounters
    /\ f.agent_token_usage = NoCounters

(***************************************************************************)
(* C25.  Between two resets of the counters at most max_calls_per_agent    *)
(* invocations of an agent pass, and an invocation raises                  *)
(* RateLimitException exactly when that many of the same agent have passed *)
(* since the last reset, whatever the other agents did.  An invocation     *)
(* made once more than reset_interval has elapsed since the last reset     *)
(* first clears every call and token counter, so that only this call is    *)
(* counted after it and it passes; _reset_counters leaves every counter    *)
(* empty.                                                                  *)
(***************************************************************************)
C25_RateLimitPerAgent ==
    /\ \A a \in RateAgents : rate_calls.passed[a] <= max_calls_per_agent
    /\ LastInvocation
           => /\ RateLimited <=> rate_calls.last.passed_before = max_calls_per_agent
              /\ rate_calls.last.reset
                     => /\ ~RateLimited
                        /\ rate_limit_filter.last_reset > 0
                        /\ \A a \in RateAgents :
                               rate_limit_filter.agent_call_counts[a] =
                                   IF a = rate_calls.last.agent_name THEN 1 ELSE Absent
                        /\ \A a \in RateAgents :
                               a # rate_calls.last.agent_name
                                   => rate_limit_filter.agent_token_usage[a] = Absent
    /\ rate_calls.last.operation = "_reset_counters"
           => CountersEmpty(rate_limit_filter)

\* an agent is refused while the other agent has passed fewer calls than the
\* limit, after the counters were reset at least once
C25_Witness ==
    /\ LastInvocation
    /\ RateLimited
    /\ rate_limit_filter.last_reset > 0
    /\ \E a \in RateAgents :
           /\ a # rate_calls.last.agent_name
           /\ rate_calls.passed[a] < max_calls_per_agent

(***************************************************************************)
(* What is said of the persisted session.                                  *)
(***************************************************************************)
PersistedMessages == cosmos.item.messages

Persisted(message) ==
    \E i \in 1..Len(PersistedMessages) : PersistedMessages[i] = message

(***************************************************************************)
(* C27, as claimed.  Whatever the interleaving of the operations on one    *)
(* session, and whether or not a read failed, the persisted messages hold  *)
(* every message whose save_state completed.  Fails: an operation writes   *)
(* back the copy it loaded, so a write made between its read and its write *)
(* is lost, and a failed read makes it write a new state that holds none   *)
(* of the earlier messages.                                                *)
(***************************************************************************)
C27_SaveStateOnlyAppends ==
    \A message \in writers.saved : Persisted(message)

(***************************************************************************)
(* What is said of a campaign stream.                                      *)
(***************************************************************************)
IsAgentMessage(message) == message # UserMessage

StreamOver == stream.pc = "done" /\ stream.orchestrator # "yielded"

TerminalEvents == {"stopped", "completed", "error"}

TerminalSent == {i \in 1..Len(stream.events) : stream.events[i] \in TerminalEvents}

CutoffFired == \E i \in 1..Len(stream.events) : stream.events[i] = "stopped"

(***************************************************************************)
(* C26, as claimed.  Once the stream is over, the persisted messages of    *)
(* the agents are the messages the generator yielded, in the order it      *)
(* yielded them, the last one included.  Fails: the generator saves a      *)
(* message only when it is resumed after the yield, and the stream that    *)
(* leaves its loop at the cutoff never resumes it.                         *)
(***************************************************************************)
C26_YieldedMessagesPersisted ==
    StreamOver => SelectSeq(PersistedMessages, IsAgentMessage) = stream.yielded

(***************************************************************************)
(* C28, as claimed.  The first event of a stream is "started", at most one *)
(* terminal event follows it and exactly one once the stream is over, and  *)
(* after the cutoff the last event is "stopped" and the persisted status   *)
(* stays "stopped".  Fails: after the break of the cutoff the code after   *)
(* the loop runs, sets the status to "completed" and sends "completed".    *)
(***************************************************************************)
C28_OneTerminalEvent ==
    /\ stream.events # <<>> => stream.events[1] = "started"
    /\ Cardinality(TerminalSent) <= 1
    /\ stream.pc = "done"
           => /\ Cardinality(TerminalSent) = 1
              /\ stream.events[Len(stream.events)] \in TerminalEvents
    /\ (CutoffFired /\ stream.pc \in {"ended", "done"})
           => /\ stream.events[Len(stream.events)] = "stopped"
              /\ cosmos.item.status = "stopped"

(***************************************************************************)
(* What is said of the campaign creation workflow.                         *)
(***************************************************************************)
ReceivedFrom(name) ==
    {i \in 1..Len(workflow.messages) : workflow.messages[i].name = name}

LastComplianceApproved ==
    \E i \in ReceivedFrom("ComplianceOfficer") :
        /\ workflow.messages[i].approved
        /\ \A j \in ReceivedFrom("ComplianceOfficer") : j <= i

(***************************************************************************)
(* C29.  The campaign execute returns is APPROVED exactly when the most    *)
(* recent message of the compliance officer held <APPROVED> and a message  *)
(* of the experiment runner was received, and PENDING_APPROVAL otherwise:  *)
(* never DRAFT, and never APPROVED without a compliance message.           *)
(***************************************************************************)
C29_ApprovedExactlyWhen ==
    workflow.pc = "returned" =>
        /\ workflow.status =
               IF LastComplianceApproved /\ ReceivedFrom("ExperimentRunner") # {}
               THEN "APPROVED" ELSE "PENDING_APPROVAL"
        /\ workflow.status # "DRAFT"
        /\ ReceivedFrom("ComplianceOfficer") = {} => workflow.status # "APPROVED"

\* an approval that an earlier rejection does not prevent
C29_Witness ==
    /\ workflow.pc = "returned"
    /\ workflow.status = "APPROVED"
    /\ \E i \in ReceivedFrom("ComplianceOfficer") : ~workflow.messages[i].approved

\* a rejection that an earlier approval does not outweigh
C29_WitnessPending ==
    /\ workflow.pc = "returned"
    /\ workflow.status = "PENDING_APPROVAL"
    /\ ReceivedFrom("ExperimentRunner") # {}
    /\ \E i \in ReceivedFrom("ComplianceOfficer") : workflow.messages[i].approved

(***************************************************************************)
(* C30, as claimed.  Every call of calculate_sample_size_required that     *)
(* returns gives a sample size of at least 1, also when the treatment      *)
(* rate baseline * (1 + effect) exceeds 1.  Fails: a pooled rate above 1   *)
(* makes pooled * (1 - pooled) negative, and baseline 0.9 with effect 0.5  *)
(* returns -10.                                                            *)
(***************************************************************************)
C30_SampleSizePositive ==
    \A i \in SampleCalls :
        SampleReturned(i) => sample_sizes[i].outcome.sample_size >= 1

====
